---- MODULE Spec2Model ----
(***************************************************************************)
(* Model of reapy's track send wrapper (reapy/core/track/send.py).         *)
(*                                                                         *)
(* A Send is an immutable identity (track_id, type, index).  Every         *)
(* property access is forwarded to the host (REAPER), which owns all       *)
(* parameter values.  The only arithmetic in the class is the packing of   *)
(* two MIDI endpoints (bus, channel) into the I_MIDIFLAGS integer.         *)
(*                                                                         *)
(* Python values are modelled as integers: True is 1 and False is 0, as in *)
(* Python itself (bool is a subclass of int).  None and "no object" are    *)
(* the empty tuple, a present value x is <<x>>.                            *)
(***************************************************************************)
EXTENDS Integers, Sequences, FiniteSets, TLC

VARIABLES
    host,   \* the host's send parameters: [Keys -> [Params -> Int]]
    objs,   \* the Send objects built so far: [ObjIds -> <<>> or <<Send>>]
    last,   \* the last operation: what was called, its argument and outcome
    calls,  \* the host calls issued by the last operation, in order
    sws     \* whether the host has the SWS extension installed

vars == <<host, objs, last, calls, sws>>

\* ------------------------------------------------------------------------
\* Bounds of the model
\* ------------------------------------------------------------------------

\* Send positions on a track range over 0..MaxIndex.
MaxIndex == 1

\* The small components of a MIDI endpoint range over -1..MaxSmall (the
\* boundary values of each bit field are added to them below).
MaxSmall == 0

\* Pan and volume take the values 0..MaxVal.
MaxVal == 1

\* ------------------------------------------------------------------------
\* Python integers
\* ------------------------------------------------------------------------

RECURSIVE Pow2(_)
\* 2 ** n
Pow2(n) == IF n = 0 THEN 1 ELSE 2 * Pow2(n - 1)

\* x << n on a Python int (unbounded, sign kept).
Shl(x, n) == x * Pow2(n)

\* x >> n on a Python int: floor division, also for negative x.
Shr(x, n) == x \div Pow2(n)

\* x % m for m > 0: Python's result has the sign of m.
PyMod(x, m) == x % m

RECURSIVE BitOr(_, _)
\* a | b on Python ints: two's complement with unbounded sign extension.
BitOr(a, b) ==
    IF a = 0 THEN b
    ELSE IF b = 0 THEN a
    ELSE IF a = (0 - 1) \/ b = (0 - 1) THEN (0 - 1)
    ELSE LET la == a % 2
             lb == b % 2
         IN  2 * BitOr(a \div 2, b \div 2) + (IF la = 1 \/ lb = 1 THEN 1 ELSE 0)

RECURSIVE BinLiteral(_)
\* The value of a binary literal 0b..., given as its digits, first digit first.
BinLiteral(digits) ==
    IF digits = <<>> THEN 0
    ELSE 2 * BinLiteral(SubSeq(digits, 1, Len(digits) - 1)) + digits[Len(digits)]

\* bool(x)
PyBool(x) == IF x # 0 THEN 1 ELSE 0

\* not x
PyNot(x) == IF x # 0 THEN 0 ELSE 1

\* ------------------------------------------------------------------------
\* The host
\* ------------------------------------------------------------------------

TrackIds == {"t1", "t2"}

KindCodes == {0 - 1, 0, 1}

\* A send is addressed by (track id, kind code, index).
Keys == TrackIds \X KindCodes \X (0 .. MaxIndex)

BoolParams == {"B_MUTE", "B_PHASE", "B_MONO"}

FloatParams == {"D_PAN", "D_VOL"}

Params == BoolParams \cup FloatParams \cup {"I_MIDIFLAGS"}

\* A host call as logged in calls.
HostCall(fn, track_id, kind, index, param, value) ==
    [fn |-> fn, track_id |-> track_id, kind |-> kind, index |-> index,
     param |-> param, value |-> value]

\* RPR.GetTrackSendInfo_Value(track_id, kind, index, param_name)
GetTrackSendInfo_Value(h, track_id, kind, index, param) ==
    h[<<track_id, kind, index>>][param]

\* RPR.SetTrackSendInfo_Value(track_id, kind, index, param_name, value)
SetTrackSendInfo_Value(h, track_id, kind, index, param, value) ==
    [h EXCEPT ![<<track_id, kind, index>>][param] = value]

\* ------------------------------------------------------------------------
\* Outcome of a method: the value returned or the exception raised, the
\* host after it, and the host calls it made.
\* ------------------------------------------------------------------------

Return(h, res, cs) == [err |-> "", res |-> res, host |-> h, calls |-> cs]

Raise(h, err, cs) == [err |-> err, res |-> <<>>, host |-> h, calls |-> cs]

\* ------------------------------------------------------------------------
\* class Send
\* ------------------------------------------------------------------------

\* A constructor that takes the track's id whenever a track is given.
Send__init__prefers_track(track, index, track_id, type) ==
    IF track = <<>>
    THEN IF track_id = <<>>
         THEN [err |-> "AssertionError", obj |-> <<>>]
         ELSE [err |-> "",
               obj |-> <<[index |-> index, track_id |-> track_id[1], type |-> type]>>]
    ELSE [err |-> "",
          obj |-> <<[index |-> index, track_id |-> track[1].id, type |-> type]>>]

\* Send.__init__(track, index, track_id, type); track and track_id are <<>>
\* for None.
Send__init__(track, index, track_id, type) ==
    IF track_id = <<>>
    THEN IF track = <<>>
         THEN [err |-> "AssertionError", obj |-> <<>>]
         ELSE [err |-> "",
               obj |-> <<[index |-> index, track_id |-> track[1].id, type |-> type]>>]
    ELSE [err |-> "",
          obj |-> <<[index |-> index, track_id |-> track_id[1], type |-> type]>>]

\* The dict of Send._get_int_type.
types == ("hardware" :> 1) @@ ("send" :> 0) @@ ("receive" :> (0 - 1))

\* A dict lookup that silently defaults (types.get(self.type, 0)).
get_int_type_defaulting(self) ==
    IF self.type \in DOMAIN types
    THEN [raised |-> "", value |-> types[self.type]]
    ELSE [raised |-> "", value |-> 0]

\* Send._get_int_type: types[self.type], a KeyError for any other type.
_get_int_type(self) ==
    IF self.type \in DOMAIN types
    THEN [raised |-> "", value |-> types[self.type]]
    ELSE [raised |-> "KeyError", value |-> 0]

\* Send.get_info(param_name)
get_info(h, self, param) ==
    LET t == _get_int_type(self) IN
    IF t.raised # "" THEN Raise(h, t.raised, <<>>)
    ELSE Return(h,
                <<GetTrackSendInfo_Value(h, self.track_id, t.value, self.index, param)>>,
                <<HostCall("GetTrackSendInfo_Value", self.track_id, t.value,
                           self.index, param, 0)>>)

\* Send.set_info(param_name, value)
set_info(h, self, param, value) ==
    LET t == _get_int_type(self) IN
    IF t.raised # "" THEN Raise(h, t.raised, <<>>)
    ELSE Return(SetTrackSendInfo_Value(h, self.track_id, t.value, self.index,
                                       param, value),
                <<>>,
                <<HostCall("SetTrackSendInfo_Value", self.track_id, t.value,
                           self.index, param, value)>>)

\* RPR.RemoveTrackSend(track_id, kind, index): the host drops the send at
\* that position; the sends behind it on the same track and of the same kind
\* move up by one, and the last position holds a send with default values (a
\* stale identity refers to whatever now occupies its slot).
RemoveTrackSend(h, track_id, kind, index) ==
    [k \in Keys |->
        IF k[1] = track_id /\ k[2] = kind /\ k[3] >= index
        THEN IF k[3] < MaxIndex
             THEN h[<<k[1], k[2], k[3] + 1>>]
             ELSE [p \in Params |-> 0]
        ELSE h[k]]

\* Send.delete(): the kind code is computed before RemoveTrackSend is called.
delete(h, self) ==
    LET t == _get_int_type(self) IN
    IF t.raised # "" THEN Raise(h, t.raised, <<>>)
    ELSE Return(RemoveTrackSend(h, self.track_id, t.value, self.index), <<>>,
                <<HostCall("RemoveTrackSend", self.track_id, t.value,
                           self.index, "", 0)>>)

\* reapy.tools.depends_on_sws: the wrapped method fails with
\* ExtensionNotFoundError when the host has no SWS extension; the check wraps
\* the whole call, so nothing of the body has taken effect then.
depends_on_sws(installed, h, outcome) ==
    IF installed THEN outcome ELSE Raise(h, "ExtensionNotFoundError", <<>>)

\* Send.get_sws_info(param_name): BR_GetSetTrackSendInfo(..., False, 0.0)
get_sws_info(installed, h, self, param) ==
    depends_on_sws(installed, h,
        LET t == _get_int_type(self) IN
        IF t.raised # "" THEN Raise(h, t.raised, <<>>)
        ELSE Return(h,
                    <<GetTrackSendInfo_Value(h, self.track_id, t.value, self.index, param)>>,
                    <<HostCall("BR_GetSetTrackSendInfo", self.track_id, t.value,
                               self.index, param, 0)>>))

\* Send.set_sws_info(param_name, value): BR_GetSetTrackSendInfo(..., True, value)
set_sws_info(installed, h, self, param, value) ==
    depends_on_sws(installed, h,
        LET t == _get_int_type(self) IN
        IF t.raised # "" THEN Raise(h, t.raised, <<>>)
        ELSE Return(SetTrackSendInfo_Value(h, self.track_id, t.value, self.index,
                                           param, value),
                    <<>>,
                    <<HostCall("BR_GetSetTrackSendInfo", self.track_id, t.value,
                               self.index, param, value)>>))

\* A getter of the form bool(self.get_info(param)).
BoolGetter(h, self, param) ==
    LET g == get_info(h, self, param) IN
    IF g.err # "" THEN g ELSE [g EXCEPT !.res = <<PyBool(g.res[1])>>]

\* is_mono read from the wrong parameter name.
is_mono_get_wrong_param(h, self) == BoolGetter(h, self, "B_MUTE")

\* Send.is_mono (getter)
is_mono_get(h, self) == BoolGetter(h, self, "B_MONO")

\* Send.is_mono (setter)
is_mono_set(h, self, mono) == set_info(h, self, "B_MONO", mono)

\* Send.is_muted (getter)
is_muted_get(h, self) == BoolGetter(h, self, "B_MUTE")

\* Send.is_muted (setter)
is_muted_set(h, self, is_muted) == set_info(h, self, "B_MUTE", is_muted)

\* Send.is_phase_flipped (getter)
is_phase_flipped_get(h, self) == BoolGetter(h, self, "B_PHASE")

\* Send.is_phase_flipped (setter)
is_phase_flipped_set(h, self, flipped) == set_info(h, self, "B_PHASE", flipped)

\* Send.pan (getter)
pan_get(h, self) == get_info(h, self, "D_PAN")

\* Send.pan (setter)
pan_set(h, self, pan) == set_info(h, self, "D_PAN", pan)

\* Send.volume (getter)
volume_get(h, self) == get_info(h, self, "D_VOL")

\* Send.volume (setter)
volume_set(h, self, volume) == set_info(h, self, "D_VOL", volume)

\* Send.mute()
mute(h, self) == is_muted_set(h, self, 1)

\* Send.unmute()
unmute(h, self) == is_muted_set(h, self, 0)

\* flip_phase writing the value it read instead of its negation.
flip_phase_no_negation(h, self) ==
    LET g == is_phase_flipped_get(h, self) IN
    IF g.err # "" THEN g
    ELSE LET s == is_phase_flipped_set(g.host, self, g.res[1])
         IN  [s EXCEPT !.calls = g.calls \o s.calls]

\* Send.flip_phase(): self.is_phase_flipped = not self.is_phase_flipped
flip_phase(h, self) ==
    LET g == is_phase_flipped_get(h, self) IN
    IF g.err # "" THEN g
    ELSE LET s == is_phase_flipped_set(g.host, self, PyNot(g.res[1]))
         IN  [s EXCEPT !.calls = g.calls \o s.calls]

\* ------------------------------------------------------------------------
\* The MIDI routing field (I_MIDIFLAGS)
\* ------------------------------------------------------------------------

\* int(x) of a value the host returns for I_MIDIFLAGS: the host keeps an
\* int there and hands it out as a double without a fraction, of which int()
\* is that same integer.
PyInt(x) == x

\* The sentinel literal with its last digit lost.
sentinel_literal_truncated ==
    BinLiteral(<<1,1,1,1,1,1,1,1, 0,0,0,0,0,0,0,0,0, 1,1,1,1>>)

\* 0b1111111100000000011111 as compared against by the getter.
sentinel_getter ==
    BinLiteral(<<1,1,1,1,1,1,1,1, 0,0,0,0,0,0,0,0,0, 1,1,1,1,1>>)

\* 0b1111111100000000011111 as written by the setter.
sentinel_setter ==
    BinLiteral(<<1,1,1,1,1,1,1,1, 0,0,0,0,0,0,0,0,0, 1,1,1,1,1>>)

\* "MIDI send disabled" as the getter returns it.
Disabled == <<<<-1, -1>>, <<-1, -1>>>>

\* The getter without its special case for the sentinel.
midi_flags_unpack_no_sentinel(flags) ==
    LET ch_flags == PyMod(flags, BinLiteral(<<1,0,0,0,0,0,0,0,0,0,0>>))
        bus_flags == Shr(flags, 14)
    IN  <<<<PyMod(bus_flags, BinLiteral(<<1,0,0,0,0,0>>)),
            PyMod(ch_flags, BinLiteral(<<1,0,0,0,0,0>>))>>,
          <<Shr(bus_flags, 8), Shr(ch_flags, 5)>>>>

\* The body of the _midi_flags_unpacked getter after the host read.
midi_flags_unpack(flags) ==
    IF flags = sentinel_getter
    THEN Disabled
    ELSE LET ch_flags == PyMod(flags, BinLiteral(<<1,0,0,0,0,0,0,0,0,0,0>>))
             bus_flags == Shr(flags, 14)
             src_bus == PyMod(bus_flags, BinLiteral(<<1,0,0,0,0,0>>))
             dst_bus == Shr(bus_flags, 8)
             src_ch == PyMod(ch_flags, BinLiteral(<<1,0,0,0,0,0>>))
             dst_ch == Shr(ch_flags, 5)
         IN  <<<<src_bus, src_ch>>, <<dst_bus, dst_ch>>>>

\* The setter without its replacement of -1 by the sentinel.
midi_flags_pack_no_sentinel(in_tuple) ==
    BitOr(BitOr(BitOr(Shl(in_tuple[1][1], 14), in_tuple[1][2]),
                Shl(in_tuple[2][1], 22)),
          Shl(in_tuple[2][2], 5))

\* The body of the _midi_flags_unpacked setter before the host write.
midi_flags_pack(in_tuple) ==
    LET src_bus == Shl(in_tuple[1][1], 14)
        src_ch == in_tuple[1][2]
        dst_bus == Shl(in_tuple[2][1], 22)
        dst_ch == Shl(in_tuple[2][2], 5)
        flags == BitOr(BitOr(BitOr(src_bus, src_ch), dst_bus), dst_ch)
    IN  IF flags = -1 THEN sentinel_setter ELSE flags

\* Send._midi_flags_unpacked (getter)
midi_flags_unpacked_get(h, self) ==
    LET g == get_info(h, self, "I_MIDIFLAGS") IN
    IF g.err # "" THEN g
    ELSE [g EXCEPT !.res = midi_flags_unpack(PyInt(g.res[1]))]

\* Send._midi_flags_unpacked (setter)
midi_flags_unpacked_set(h, self, in_tuple) ==
    set_info(h, self, "I_MIDIFLAGS", midi_flags_pack(in_tuple))

\* Send.midi_source (getter)
midi_source_get(h, self) ==
    LET g == midi_flags_unpacked_get(h, self) IN
    IF g.err # "" THEN g ELSE [g EXCEPT !.res = g.res[1]]

\* Send.midi_source (setter)
midi_source_set(h, self, source) ==
    LET g == midi_flags_unpacked_get(h, self) IN
    IF g.err # "" THEN g
    ELSE LET dest == g.res[2]
             s == midi_flags_unpacked_set(g.host, self, <<source, dest>>)
         IN  [s EXCEPT !.calls = g.calls \o s.calls]

\* Send.midi_dest (getter)
midi_dest_get(h, self) ==
    LET g == midi_flags_unpacked_get(h, self) IN
    IF g.err # "" THEN g ELSE [g EXCEPT !.res = g.res[2]]

\* Send.midi_dest (setter)
midi_dest_set(h, self, dest) ==
    LET g == midi_flags_unpacked_get(h, self) IN
    IF g.err # "" THEN g
    ELSE LET source == g.res[1]
             s == midi_flags_unpacked_set(g.host, self, <<source, dest>>)
         IN  [s EXCEPT !.calls = g.calls \o s.calls]

\* ------------------------------------------------------------------------
\* Inputs
\* ------------------------------------------------------------------------

ObjIds == {"a", "b", "c", "d", "e"}

Tracks == {[id |-> t] : t \in TrackIds}

\* "aux" stands for any string that is not a key of types.
TypeNames == {"send", "hardware", "receive", "aux"}

\* Python's False and True.
BoolVals == {0, 1}

FloatVals == 0 .. MaxVal

\* Values a parameter can be given.
ParamVals(p) == IF p \in BoolParams THEN BoolVals ELSE FloatVals

\* Bus and channel components handed to the private setter: the small values,
\* -1, and the edges of the 5-bit and 8-bit fields.
BusSamples == ((0 - 1) .. MaxSmall) \cup {32, 255}

ChanSamples == ((0 - 1) .. MaxSmall) \cup {31, 63}

CodecInputs ==
    {<<<<sb, sc>>, <<db, dc>>>> :
        sb \in BusSamples, sc \in ChanSamples, db \in BusSamples, dc \in ChanSamples}

\* Values the host itself may hold in I_MIDIFLAGS: every bit field at its
\* low values and at its edges, the unused bits 10-13 included.
FlagSamples ==
    {sc + 32 * dc + 1024 * gap + 16384 * sb + 4194304 * db :
        sc \in {0, 31}, dc \in {0, 31}, gap \in {0, 1},
        sb \in (0 .. MaxSmall) \cup {31, 32, 255}, db \in (0 .. MaxSmall) \cup {255}}

\* Endpoints a caller assigns to midi_source and midi_dest.
Endpoints ==
    {<<bus, ch>> : bus \in (0 .. MaxSmall) \cup {31}, ch \in (0 .. MaxSmall) \cup {16}}

\* ------------------------------------------------------------------------
\* Actions: one per operation
\* ------------------------------------------------------------------------

\* A method of object o has run with outcome out.
Do(op, o, arg, hist, out) ==
    /\ host' = out.host
    /\ calls' = out.calls
    /\ last' = [op |-> op, obj |-> o, arg |-> arg, res |-> out.res,
                err |-> out.err, hist |-> hist]
    /\ UNCHANGED <<objs, sws>>

\* Whether the last operation was op, without error, on a Send equal to self.
LastWas(op, self) ==
    /\ last.op = op
    /\ last.err = ""
    /\ objs[last.obj] = <<self>>

\* o = Send(track, index, track_id, type)
Construct(o, track, index, track_id, type) ==
    LET out == Send__init__(track, index, track_id, type) IN
    /\ objs' = IF out.err = "" THEN [objs EXCEPT ![o] = out.obj] ELSE objs
    /\ last' = [op |-> "__init__", obj |-> o,
                arg |-> <<track, index, track_id, type>>,
                res |-> out.obj, err |-> out.err, hist |-> <<>>]
    /\ calls' = <<>>
    /\ UNCHANGED <<host, sws>>

GetInfo(o, param) ==
    /\ objs[o] # <<>>
    /\ Do("get_info", o, <<param>>, <<>>, get_info(host, objs[o][1], param))

SetInfo(o, param, value) ==
    /\ objs[o] # <<>>
    /\ Do("set_info", o, <<param, value>>, <<>>,
          set_info(host, objs[o][1], param, value))

GetSwsInfo(o, param) ==
    /\ objs[o] # <<>>
    /\ Do("get_sws_info", o, <<param>>, <<>>,
          get_sws_info(sws, host, objs[o][1], param))

SetSwsInfo(o, param, value) ==
    /\ objs[o] # <<>>
    /\ Do("set_sws_info", o, <<param, value>>, <<>>,
          set_sws_info(sws, host, objs[o][1], param, value))

Delete(o) ==
    /\ objs[o] # <<>>
    /\ Do("delete", o, <<>>, <<>>, delete(host, objs[o][1]))

IsMonoGet(o) ==
    /\ objs[o] # <<>>
    /\ Do("is_mono", o, <<>>, <<>>, is_mono_get(host, objs[o][1]))

IsMonoSet(o, v) ==
    /\ objs[o] # <<>>
    /\ Do("is_mono=", o, <<v>>, <<>>, is_mono_set(host, objs[o][1], v))

IsMutedGet(o) ==
    /\ objs[o] # <<>>
    /\ Do("is_muted", o, <<>>, <<>>, is_muted_get(host, objs[o][1]))

IsMutedSet(o, v) ==
    /\ objs[o] # <<>>
    /\ Do("is_muted=", o, <<v>>, <<>>, is_muted_set(host, objs[o][1], v))

IsPhaseFlippedGet(o) ==
    /\ objs[o] # <<>>
    /\ Do("is_phase_flipped", o, <<>>, <<>>, is_phase_flipped_get(host, objs[o][1]))

IsPhaseFlippedSet(o, v) ==
    /\ objs[o] # <<>>
    /\ Do("is_phase_flipped=", o, <<v>>, <<>>,
          is_phase_flipped_set(host, objs[o][1], v))

PanGet(o) ==
    /\ objs[o] # <<>>
    /\ Do("pan", o, <<>>, <<>>, pan_get(host, objs[o][1]))

PanSet(o, v) ==
    /\ objs[o] # <<>>
    /\ Do("pan=", o, <<v>>, <<>>, pan_set(host, objs[o][1], v))

VolumeGet(o) ==
    /\ objs[o] # <<>>
    /\ Do("volume", o, <<>>, <<>>, volume_get(host, objs[o][1]))

VolumeSet(o, v) ==
    /\ objs[o] # <<>>
    /\ Do("volume=", o, <<v>>, <<>>, volume_set(host, objs[o][1], v))

Mute(o) ==
    /\ objs[o] # <<>>
    /\ Do("mute", o, <<>>, <<>>, mute(host, objs[o][1]))

Unmute(o) ==
    /\ objs[o] # <<>>
    /\ Do("unmute", o, <<>>, <<>>, unmute(host, objs[o][1]))

\* hist: is_phase_flipped before this call and, when the operation right
\* before was a flip_phase of the same send, before that one too.
FlipPhase(o) ==
    /\ objs[o] # <<>>
    /\ LET self == objs[o][1]
           before == is_phase_flipped_get(host, self).res
       IN  Do("flip_phase", o, <<>>,
              IF LastWas("flip_phase", self) THEN before \o <<last.hist[1]>> ELSE before,
              flip_phase(host, self))

\* hist: the tuple the operation right before wrote through the setter of the
\* same send, if that is what it did.
MidiFlagsUnpackedGet(o) ==
    /\ objs[o] # <<>>
    /\ LET self == objs[o][1] IN
       Do("_midi_flags_unpacked", o, <<>>,
          IF LastWas("_midi_flags_unpacked=", self) THEN <<last.arg>> ELSE <<>>,
          midi_flags_unpacked_get(host, self))

MidiFlagsUnpackedSet(o, in_tuple) ==
    /\ objs[o] # <<>>
    /\ Do("_midi_flags_unpacked=", o, in_tuple, <<>>,
          midi_flags_unpacked_set(host, objs[o][1], in_tuple))

MidiSourceGet(o) ==
    /\ objs[o] # <<>>
    /\ Do("midi_source", o, <<>>, <<>>, midi_source_get(host, objs[o][1]))

\* hist: what midi_dest read before the assignment.
MidiSourceSet(o, source) ==
    /\ objs[o] # <<>>
    /\ LET self == objs[o][1] IN
       Do("midi_source=", o, source, <<midi_dest_get(host, self).res>>,
          midi_source_set(host, self, source))

MidiDestGet(o) ==
    /\ objs[o] # <<>>
    /\ Do("midi_dest", o, <<>>, <<>>, midi_dest_get(host, objs[o][1]))

\* hist: what midi_source read before the assignment.
MidiDestSet(o, dest) ==
    /\ objs[o] # <<>>
    /\ LET self == objs[o][1] IN
       Do("midi_dest=", o, dest, <<midi_source_get(host, self).res>>,
          midi_dest_set(host, self, dest))

\* The identity (track id, kind code, index) a Send addresses.
KeyOf(self) == <<self.track_id, _get_int_type(self).value, self.index>>

\* The sends some existing object of a recognized type addresses.
ObjKeys ==
    {KeyOf(objs[o][1]) : o \in {x \in ObjIds : objs[x] # <<>> /\ objs[x][1].type \in DOMAIN types}}

\* The host changes a parameter on its own (the user moves a control).
HostWrite(k, p, v) ==
    /\ host[k][p] # v
    /\ host' = [host EXCEPT ![k][p] = v]
    /\ last' = [op |-> "host", obj |-> "", arg |-> <<k, p, v>>, res |-> <<>>,
                err |-> "", hist |-> <<>>]
    /\ calls' = <<>>
    /\ UNCHANGED <<objs, sws>>

\* ------------------------------------------------------------------------
\* Specifications
\* ------------------------------------------------------------------------

\* Every host parameter at its default.
HostDefault == [k \in Keys |-> [p \in Params |-> 0]]

Start == [op |-> "start", obj |-> "", arg |-> <<>>, res |-> <<>>, err |-> "",
          hist |-> <<>>]

\* The objects the scripts below hold: a and b are the same send, built from
\* a track and from a track id; c is a receive at the last position; d was
\* built with a type that is none of the three; e is a hardware output.
StdObjs ==
    [o \in ObjIds |->
        CASE o = "a" -> Send__init__(<<[id |-> "t1"]>>, 0, <<>>, "send").obj
          [] o = "b" -> Send__init__(<<>>, 0, <<"t1">>, "send").obj
          [] o = "c" -> Send__init__(<<>>, MaxIndex, <<"t1">>, "receive").obj
          [] o = "e" -> Send__init__(<<>>, 0, <<"t2">>, "hardware").obj
          [] OTHER   -> Send__init__(<<>>, 0, <<"t1">>, "aux").obj]

\* Construction.
InitCtor ==
    /\ host = HostDefault
    /\ objs = [o \in ObjIds |-> <<>>]
    /\ last = Start
    /\ calls = <<>>
    /\ sws = TRUE

NextCtor ==
    \E o \in {"a", "b"}, index \in 0 .. MaxIndex, type \in TypeNames,
       track \in {<<>>} \cup {<<t>> : t \in Tracks},
       track_id \in {<<>>} \cup {<<t>> : t \in TrackIds} :
        Construct(o, track, index, track_id, type)

SpecCtor == InitCtor /\ [][NextCtor]_vars

\* The objects of StdObjs named in ids, the others not built.
Holding(ids) == [o \in ObjIds |-> IF o \in ids THEN StdObjs[o] ELSE <<>>]

PropParams == BoolParams \cup FloatParams

\* The pass-through properties: two objects for one send, one object of an
\* unrecognized type, and a neighbouring send that only the host changes.
InitProps ==
    /\ host = HostDefault
    /\ objs = Holding({"a", "b", "d"})
    /\ last = Start
    /\ calls = <<>>
    /\ sws = TRUE

Neighbour == <<"t1", 0, MaxIndex>>

NextProps ==
    \/ \E o \in ObjIds : IsMonoGet(o)
    \/ \E o \in ObjIds, v \in BoolVals : IsMonoSet(o, v)
    \/ \E o \in ObjIds : IsMutedGet(o)
    \/ \E o \in ObjIds, v \in BoolVals : IsMutedSet(o, v)
    \/ \E o \in ObjIds : IsPhaseFlippedGet(o)
    \/ \E o \in ObjIds, v \in BoolVals : IsPhaseFlippedSet(o, v)
    \/ \E o \in ObjIds : PanGet(o)
    \/ \E o \in ObjIds, v \in FloatVals : PanSet(o, v)
    \/ \E o \in ObjIds : VolumeGet(o)
    \/ \E o \in ObjIds, v \in FloatVals : VolumeSet(o, v)
    \/ \E o \in ObjIds : Mute(o)
    \/ \E o \in ObjIds : Unmute(o)
    \/ \E o \in ObjIds : FlipPhase(o)
    \/ \E k \in ObjKeys, p \in PropParams : \E v \in ParamVals(p) : HostWrite(k, p, v)
    \/ \E p \in {"B_PHASE", "D_PAN"} : \E v \in ParamVals(p) : HostWrite(Neighbour, p, v)

SpecProps == InitProps /\ [][NextProps]_vars

\* The raw methods on one object of each type, with and without SWS.
InitKind ==
    /\ host = HostDefault
    /\ objs = Holding({"a", "c", "d", "e"})
    /\ last = Start
    /\ calls = <<>>
    /\ sws \in BOOLEAN

KindParams == {"B_MUTE", "D_VOL"}

NextKind ==
    \/ \E o \in ObjIds, p \in KindParams : GetInfo(o, p)
    \/ \E o \in ObjIds, p \in KindParams : \E v \in ParamVals(p) : SetInfo(o, p, v)
    \/ \E o \in ObjIds, p \in KindParams : GetSwsInfo(o, p)
    \/ \E o \in ObjIds, p \in KindParams : \E v \in ParamVals(p) : SetSwsInfo(o, p, v)
    \/ \E o \in ObjIds : Delete(o)

SpecKind == InitKind /\ [][NextKind]_vars

\* The packing of I_MIDIFLAGS, through the private property of one send.
InitCodec ==
    /\ host = HostDefault
    /\ objs = Holding({"a"})
    /\ last = Start
    /\ calls = <<>>
    /\ sws = TRUE

NextCodec ==
    \/ \E o \in ObjIds, t \in CodecInputs : MidiFlagsUnpackedSet(o, t)
    \/ \E o \in ObjIds : MidiFlagsUnpackedGet(o)
    \/ \E k \in ObjKeys, f \in FlagSamples : HostWrite(k, "I_MIDIFLAGS", f)

SpecCodec == InitCodec /\ [][NextCodec]_vars

\* The public MIDI endpoints of one send, which the host created with MIDI
\* routed (0) or with MIDI disabled (the sentinel).
InitMidi ==
    /\ \E f \in {0, sentinel_setter} :
         host = [HostDefault EXCEPT ![<<"t1", 0, 0>>]["I_MIDIFLAGS"] = f]
    /\ objs = Holding({"a", "b"})
    /\ last = Start
    /\ calls = <<>>
    /\ sws = TRUE

NextMidi ==
    \/ \E o \in ObjIds : MidiSourceGet(o)
    \/ \E o \in ObjIds, e \in Endpoints : MidiSourceSet(o, e)
    \/ \E o \in ObjIds : MidiDestGet(o)
    \/ \E o \in ObjIds, e \in Endpoints : MidiDestSet(o, e)

SpecMidi == InitMidi /\ [][NextMidi]_vars

\* ------------------------------------------------------------------------
\* Properties
\* ------------------------------------------------------------------------

\* The Send the last operation was called on.
LastSelf == objs[last.obj][1]

\* What the host holds in I_MIDIFLAGS for the send of the last operation.
LastFlags == host[KeyOf(LastSelf)]["I_MIDIFLAGS"]

\* The last operation was op and returned normally.
Ran(op) == last.op = op /\ last.err = ""

\* (src_bus << 14) | src_channel | (dst_bus << 22) | (dst_channel << 5)
ShiftOr(t) ==
    BitOr(BitOr(BitOr(Shl(t[1][1], 14), t[1][2]), Shl(t[2][1], 22)), Shl(t[2][2], 5))

\* Both buses in 0..255 and both channels in 0..31.
InBitWidths(t) ==
    /\ t[1][1] \in 0 .. 255 /\ t[2][1] \in 0 .. 255
    /\ t[1][2] \in 0 .. 31 /\ t[2][2] \in 0 .. 31

\* C1 (as claimed): reading _midi_flags_unpacked right after writing a tuple
\* with buses in 0..255 and channels in 0..31 returns that tuple.
C1_RoundTrip ==
    (Ran("_midi_flags_unpacked") /\ last.hist # <<>>)
        => (InBitWidths(last.hist[1]) => last.res = last.hist[1])

\* C2 (as claimed): for components from -1..255 the setter writes what the
\* reference rule gives: the sentinel for (-1,-1,-1,-1), the shift-and-OR of
\* the components for every other tuple.
C2_ReferenceRule ==
    Ran("_midi_flags_unpacked=")
        => LastFlags = (IF last.arg = Disabled THEN 4177951 ELSE ShiftOr(last.arg))

\* The tuples with components from -1..255 whose shift-and-OR is -1.
OrIsMinusOne(t) ==
    \/ t[1][2] = -1
    \/ t[2][2] = -1 /\ t[1][2] % 32 = 31

\* C2 (amended): for components from -1..255 the setter writes the sentinel
\* for every tuple whose shift-and-OR is -1, which are (-1,-1,-1,-1) and also
\* every tuple with src_channel = -1 or with dst_channel = -1 and the low
\* five bits of src_channel set; for every other tuple it writes the
\* shift-and-OR of the components.
C2_SentinelWhenOrIsMinusOne ==
    Ran("_midi_flags_unpacked=")
        => LastFlags = (IF OrIsMinusOne(last.arg) THEN 4177951 ELSE ShiftOr(last.arg))

\* C2 witness: a tuple that is not (-1,-1,-1,-1) has been written as the
\* sentinel.
C2_Witness ==
    /\ Ran("_midi_flags_unpacked=")
    /\ last.arg = <<<<0, -1>>, <<0, 0>>>>
    /\ LastFlags = 4177951

\* C3: writing ((-1,-1),(-1,-1)) stores 0b1111111100000000011111, reading
\* while the host holds that value returns ((-1,-1),(-1,-1)), and so does
\* reading right after that write.
C3_SentinelFixedPoint ==
    /\ (Ran("_midi_flags_unpacked=") /\ last.arg = Disabled)
          => LastFlags = BinLiteral(<<1,1,1,1,1,1,1,1, 0,0,0,0,0,0,0,0,0, 1,1,1,1,1>>)
    /\ (Ran("_midi_flags_unpacked")
          /\ LastFlags = BinLiteral(<<1,1,1,1,1,1,1,1, 0,0,0,0,0,0,0,0,0, 1,1,1,1,1>>))
          => last.res = Disabled
    /\ (Ran("_midi_flags_unpacked") /\ last.hist = <<Disabled>>)
          => last.res = Disabled

\* C3 witness: ((-1,-1),(-1,-1)) was written and then read back.
C3_Witness ==
    /\ Ran("_midi_flags_unpacked")
    /\ last.hist = <<Disabled>>
    /\ last.res = Disabled

\* C4 (as claimed): for a non-negative I_MIDIFLAGS value f other than the
\* sentinel, the getter returns source channel = bits 0-4, destination
\* channel = bits 5-9, source bus = bits 14-21, destination bus = bits 22
\* and above.
C4_BitLayout ==
    (Ran("_midi_flags_unpacked") /\ LastFlags >= 0 /\ LastFlags # 4177951)
        => last.res = <<<<(LastFlags \div 16384) % 256, LastFlags % 32>>,
                        <<LastFlags \div 4194304, (LastFlags \div 32) % 32>>>>

\* C8 (as claimed): the value written for "MIDI send disabled", and the
\* value the getter takes for it, is 16646687.
C8_Decimal16646687 ==
    /\ (Ran("_midi_flags_unpacked=") /\ last.arg = Disabled) => LastFlags = 16646687
    /\ (Ran("_midi_flags_unpacked") /\ last.res = Disabled) => LastFlags = 16646687

\* C8 (amended): the value written for "MIDI send disabled", and the value
\* the getter takes for it, is 4177951.
C8_Decimal4177951 ==
    /\ (Ran("_midi_flags_unpacked=") /\ last.arg = Disabled) => LastFlags = 4177951
    /\ (Ran("_midi_flags_unpacked") /\ last.res = Disabled) => LastFlags = 4177951

\* C8 witness: ((-1,-1),(-1,-1)) has been written.
C8_Witness ==
    /\ Ran("_midi_flags_unpacked=")
    /\ last.arg = Disabled
    /\ LastFlags = 4177951

\* C10 (as claimed): after midi_source = e, midi_source reads e and midi_dest
\* reads what it read before; after midi_dest = e, midi_dest reads e and
\* midi_source reads what it read before.
C10_EndpointsIndependent ==
    /\ Ran("midi_source=")
          => /\ midi_source_get(host, LastSelf).res = last.arg
             /\ midi_dest_get(host, LastSelf).res = last.hist[1]
    /\ Ran("midi_dest=")
          => /\ midi_dest_get(host, LastSelf).res = last.arg
             /\ midi_source_get(host, LastSelf).res = last.hist[1]

\* The raw methods of C5.
KindOps == {"get_info", "set_info", "delete", "get_sws_info", "set_sws_info"}

\* The kind code the enumeration gives a recognized type.
KindCode(type) ==
    CASE type = "send" -> 0
      [] type = "hardware" -> 1
      [] type = "receive" -> -1

\* Every host call of the last operation carries the kind code of its type,
\* and a normal return has made exactly one.
CallsCarryKind ==
    /\ \A i \in DOMAIN calls : calls[i].kind = KindCode(LastSelf.type)
    /\ last.err = "" => Len(calls) = 1

\* C5 (as claimed): the raw methods pass 0 for "send", 1 for "hardware" and
\* -1 for "receive"; for any other type each of them fails with a lookup
\* error and makes no host call.
C5_KindCodeOrLookupError ==
    last.op \in KindOps
        => IF LastSelf.type \in {"send", "hardware", "receive"}
           THEN CallsCarryKind
           ELSE last.err = "KeyError" /\ calls = <<>>

\* C5 (amended): the raw methods pass 0 for "send", 1 for "hardware" and -1
\* for "receive"; for any other type each of them fails and makes no host
\* call, with a lookup error, except that get_sws_info and set_sws_info on a
\* host without the SWS extension fail with the extension-not-found error.
C5_KindCodeOrFailure ==
    last.op \in KindOps
        => IF LastSelf.type \in {"send", "hardware", "receive"}
           THEN CallsCarryKind
           ELSE /\ calls = <<>>
                /\ last.err = (IF last.op \in {"get_sws_info", "set_sws_info"} /\ ~sws
                               THEN "ExtensionNotFoundError"
                               ELSE "KeyError")

\* C5 witness: set_sws_info on a send of an unrecognized type, SWS
\* installed, has failed with the lookup error.
C5_Witness ==
    /\ last.op = "set_sws_info"
    /\ LastSelf.type = "aux"
    /\ sws
    /\ last.err = "KeyError"

\* C6: construction without track and track_id fails with an assertion
\* failure and yields no object; with a track_id the object has that
\* track_id; with a track only it has the track's id.
C6_Construction ==
    last.op = "__init__"
        => LET track == last.arg[1]
               track_id == last.arg[3]
           IN  /\ (track = <<>> /\ track_id = <<>>)
                     => last.err = "AssertionError" /\ last.res = <<>>
               /\ track_id # <<>>
                     => /\ last.err = ""
                        /\ last.res # <<>>
                        /\ objs[last.obj] = last.res
                        /\ objs[last.obj][1].track_id = track_id[1]
               /\ (track_id = <<>> /\ track # <<>>)
                     => /\ last.err = ""
                        /\ last.res # <<>>
                        /\ objs[last.obj] = last.res
                        /\ objs[last.obj][1].track_id = track[1].id

\* C6 witness: an object was built from a track and the id of another track.
C6_Witness ==
    /\ last.op = "__init__"
    /\ last.err = ""
    /\ last.arg[1] # <<>>
    /\ last.arg[3] # <<>>
    /\ last.arg[1][1].id # last.arg[3][1]

\* The host parameter behind each property of C7.
PropParam(op) ==
    CASE op \in {"is_muted", "is_muted="} -> "B_MUTE"
      [] op \in {"is_mono", "is_mono="} -> "B_MONO"
      [] op \in {"is_phase_flipped", "is_phase_flipped="} -> "B_PHASE"
      [] op \in {"pan", "pan="} -> "D_PAN"
      [] op \in {"volume", "volume="} -> "D_VOL"

PropReads == {"is_muted", "is_mono", "is_phase_flipped", "pan", "volume"}

PropWrites == {"is_muted=", "is_mono=", "is_phase_flipped=", "pan=", "volume="}

\* What a read of a property returns for a host value: booleans come back as
\* Python bools.
AsRead(op, value) == IF PropParam(op) \in BoolParams THEN PyBool(value) ELSE value

\* After a read: one host read of the property's parameter for this send,
\* and the result is the host's value.  After an assignment: the host holds
\* the value given.
C7_ReadsAndWrites ==
    /\ (last.op \in PropReads /\ last.err = "")
          => /\ calls = <<HostCall("GetTrackSendInfo_Value", LastSelf.track_id,
                                   KindCode(LastSelf.type), LastSelf.index,
                                   PropParam(last.op), 0)>>
             /\ last.res = <<AsRead(last.op, host[KeyOf(LastSelf)][PropParam(last.op)])>>
    /\ (last.op \in PropWrites /\ last.err = "")
          => /\ calls = <<HostCall("SetTrackSendInfo_Value", LastSelf.track_id,
                                   KindCode(LastSelf.type), LastSelf.index,
                                   PropParam(last.op), last.arg[1])>>
             /\ host[KeyOf(LastSelf)][PropParam(last.op)] = last.arg[1]

\* An assignment changes no parameter but its own, of its own send; a read
\* changes none.
C7_Frame ==
    \A k \in Keys, p \in Params :
        (host'[k][p] # host[k][p])
            => ((last'.op \in PropWrites \cup PropReads)
                   => /\ last'.op \in PropWrites
                      /\ k = KeyOf(objs[last'.obj][1])
                      /\ p = PropParam(last'.op))

\* C7: each of is_muted, is_mono, is_phase_flipped, pan and volume is a
\* pass-through: an assignment is one host write of the given value to the
\* property's parameter of this send and changes nothing else; a read is one
\* host read and returns the host's current value, whoever wrote it last.
C7_PassThrough == []C7_ReadsAndWrites /\ [][C7_Frame]_vars

\* C7 witness: a value assigned through one object has been read through
\* another object of the same send.
C7_Witness ==
    /\ Ran("is_mono")
    /\ last.obj = "b"
    /\ last.res = <<1>>

\* After flip_phase: B_PHASE was read and its negation written, so that
\* is_phase_flipped is the negation of what it was, and what it was before a
\* flip_phase of the same send right before this one.
C9_Negated ==
    Ran("flip_phase")
        => /\ Len(calls) = 2
           /\ calls[1].fn = "GetTrackSendInfo_Value" /\ calls[1].param = "B_PHASE"
           /\ calls[2].fn = "SetTrackSendInfo_Value" /\ calls[2].param = "B_PHASE"
           /\ calls[2].value = PyNot(last.hist[1])
           /\ is_phase_flipped_get(host, LastSelf).res = <<PyNot(last.hist[1])>>
           /\ Len(last.hist) = 2
                 => is_phase_flipped_get(host, LastSelf).res = <<last.hist[2]>>

\* flip_phase changes no parameter but B_PHASE of its send.
C9_Frame ==
    \A k \in Keys, p \in Params :
        (last'.op = "flip_phase" /\ host'[k][p] # host[k][p])
            => (k = KeyOf(objs[last'.obj][1]) /\ p = "B_PHASE")

\* C9: flip_phase reads B_PHASE and writes its negation: is_phase_flipped
\* is negated by one call and restored by two calls in a row, and no other
\* parameter changes.
C9_FlipPhase == []C9_Negated /\ [][C9_Frame]_vars

\* C9 witness: flip_phase has run twice in a row on a send whose phase was
\* flipped.
C9_Witness ==
    /\ Ran("flip_phase")
    /\ last.hist = <<0, 1>>

====
